---- MODULE Spec2Model ----
(***************************************************************************)
(* A model of src/src/extension.ts of the COBOL language extension:        *)
(*   - the copybook search path built by initExtensionSearchPaths          *)
(*     (fileSearchDirectory / invalidSearchDirectory);                     *)
(*   - the unreferenced paragraph/section diagnostics of                   *)
(*     CobolUsageProvider.updateDiagnostics and the quick fixes of         *)
(*     CobolUsageActionFixer.provideCodeActions.                           *)
(*                                                                         *)
(* Conventions.  An optional value (T | undefined) is a sequence of at     *)
(* most one element: <<>> is undefined, <<v>> is the value v.  A string    *)
(* that the code inspects character by character (names, diagnostic       *)
(* codes) is a sequence of one-character strings.  A JavaScript Map is the *)
(* sequence of its [key, value] entries in insertion order.  logMessage    *)
(* only appends to the output channel, which is not part of the model.     *)
(***************************************************************************)
EXTENDS Naturals, Integers, Sequences, FiniteSets, TLC

VARIABLES
    \* ---- environment of the search path ----
    config,                 \* ICOBOLSettings read by initExtensionSearchPaths
    ws,                     \* getWorkspaceFolders(): undefined or the folders' fsPath
    fs,                     \* the filesystem: what fs.statSync answers for a path
    extensionsAll,          \* vscode.extensions.all
    \* ---- module state of extension.ts ----
    fileSearchDirectory,
    invalidSearchDirectory,
    checkForExtensionConflictsMessage,
    messageBoxDone,
    \* ---- observations of the last initExtensionSearchPaths run ----
    elapsed,                \* ms measured around isDirectory(ddir), per index of copybookdirs
    messageBoxes,           \* number of modal dialogs shown so far
    initRuns,               \* 0 before the first run, 1 afterwards
    lastEvent,              \* the handler that made the last run
    dropped,                \* the last run removed an entry the lists held before it
    suppressed,             \* the last event's run had a message to show and messageBoxDone set
    \* ---- the editor's documents ----
    openDocuments,          \* fileName -> [version, text]
    \* ---- CobolUsageProvider ----
    enabled,
    collection,             \* the DiagnosticCollection: uri -> Diagnostic[]
    current,                \* COBOLQuickParse | undefined
    currentVersion,         \* number | undefined
    sourceRefs,             \* SharedSourceReferences | undefined
    \* ---- observations of the updateDiagnostics calls ----
    builtFor,               \* the [fileName, version] this.current was constructed for
    calls,                  \* the last two calls, the latest last
    \* ---- CobolUsageActionFixer ----
    context,                \* the diagnostics of the last CodeActionContext
    codeActions,            \* what the last provideCodeActions returned, or undefined
    \* ---- the editor and the handlers registered by activate ----
    activeTextEditor,       \* window.activeTextEditor: undefined or [fileName, languageId]
    lastCommand,            \* the command invoked last, "none" before the first
    commandCalls,           \* the calls the last command handler made, in order
    lastHandled,            \* the last editor event handled: what changed, what was linted
    \* ---- what the command handlers read and write ----
    lineCommentEnabled,     \* VSCOBOLConfiguration.isLineCommentEnabled()
    unitTestTerminal,       \* undefined or the terminal created: its index in terminals
    terminals,              \* the terminals created so far: name, times shown, text sent
    inputBox,               \* the prompt of showInputBox: "none" or "open"
    promptValue,            \* the value the prompt resolved with last, undefined if none
    \* ---- the session: activate ... deactivate ----
    phase,                  \* "loaded", "active" or "deactivated"
    cacheSettings,          \* the caching settings as VSCOBOLConfiguration reads them now
    activatedWith,          \* the caching settings activate found
    lifecycle,              \* the cache operations and returns so far, in order
    sweep                   \* processAllFilesInWorkspaces: "none", "running", "finished"

pathVars == <<config, ws, fs, extensionsAll, fileSearchDirectory, invalidSearchDirectory,
              checkForExtensionConflictsMessage, messageBoxDone, elapsed, messageBoxes,
              initRuns, lastEvent, dropped, suppressed>>

usageVars == <<openDocuments, enabled, collection, current, currentVersion, sourceRefs,
               builtFor, calls>>

fixerVars == <<context, codeActions>>

commandVars == <<lineCommentEnabled, unitTestTerminal, terminals, inputBox, promptValue>>

editorVars == <<activeTextEditor, lastCommand, commandCalls, lastHandled, commandVars>>

sessionVars == <<phase, cacheSettings, activatedWith, lifecycle, sweep>>

(***************************************************************************)
(* Optional values                                                         *)
(***************************************************************************)
Undefined == <<>>

Some(v) == <<v>>

IsDefined(o) == Len(o) = 1

ValueOf(o) == o[1]

Range(seq) == {seq[i] : i \in 1..Len(seq)}

SeqsUpTo(S, n) == UNION {[1..k -> S] : k \in 0..n}

(***************************************************************************)
(* Paths.  A path string is its root ("relative": none, "drive": a local   *)
(* absolute path, "unc": a network path) and its segments.                 *)
(***************************************************************************)
Rel(segs) == [root |-> "relative", segs |-> segs]

Abs(segs) == [root |-> "drive", segs |-> segs]

Unc(segs) == [root |-> "unc", segs |-> segs]

\* opencopybook.isDirectPath: an absolute path, local or network
isDirectPath(dir) == dir.root \in {"drive", "unc"}

\* opencopybook.isNetworkPath: a UNC path
isNetworkPath(dir) == dir.root = "unc"

\* path.join(folder, extdir) for a relative extdir: the folder's root is kept, the
\* segments are concatenated and normalised ("." segments disappear)
PathJoin(folder, extdir) ==
    [root |-> folder.root,
     segs |-> SelectSeq(folder.segs \o extdir.segs, LAMBDA s : s # ".")]

(***************************************************************************)
(* Bounds and input sets of the search path                                *)
(***************************************************************************)
MaxCopybookDirs == 2

CopybookDirChoices ==
    {Rel(<<"cpy">>), Rel(<<".">>), Abs(<<"w">>), Abs(<<"w", "cpy">>), Unc(<<"s", "cpy">>)}

FolderChoices == {Abs(<<"w">>), Unc(<<"s">>)}

\* undefined (no workspace), or a list of distinct folders
WorkspaceChoices ==
    {Undefined} \cup
    {Some(f) : f \in {g \in SeqsUpTo(FolderChoices, Cardinality(FolderChoices)) :
                         \A i, j \in 1..Len(g) : i # j => g[i] # g[j]}}

StatOutcomes == {"dir", "file", "ENOENT"}

\* the time threshold of line 201, and the measured times tried around it
SlowThresholdMS == 2000

Durations == {SlowThresholdMS, SlowThresholdMS + 1}

\* an installed extension: publisher and the languages of its contributed grammars
InstalledExtensions ==
    {[name |-> "cobol", publisher |-> "bitlang", grammars |-> <<"COBOL">>],
     [name |-> "other", publisher |-> "acme", grammars |-> <<"jcl", "cobol">>]}

(***************************************************************************)
(* isDirectory / isFile (lines 53-77)                                      *)
(***************************************************************************)
\* fs.statSync: "ENOENT" stands for any exception it raises
statSync(filesystem, sdir) == filesystem[sdir]

isDirectory_ReturnsTrueOnError(filesystem, sdir) ==
    statSync(filesystem, sdir) # "file"

isDirectory(filesystem, sdir) ==
    IF statSync(filesystem, sdir) = "ENOENT"
    THEN FALSE                                          \* catch { return false; }
    ELSE IF statSync(filesystem, sdir) = "dir" THEN TRUE ELSE FALSE

isFile(filesystem, sdir) ==
    IF statSync(filesystem, sdir) = "ENOENT"
    THEN FALSE
    ELSE IF statSync(filesystem, sdir) = "file" THEN TRUE ELSE FALSE

(***************************************************************************)
(* checkForExtensionConflicts (lines 101-163).  The message is the         *)
(* sequence of its parts: the "warning" head and one entry per conflicting *)
(* grammar.                                                                *)
(***************************************************************************)
toUpperCase(language) ==
    CASE language = "cobol" -> "COBOL"
      [] language = "jcl" -> "JCL"
      [] OTHER -> language

RECURSIVE grammarsMessage(_, _, _, _)
grammarsMessage(settings, ext, key, dupExtensionMessage) ==
    IF key > Len(ext.grammars) THEN dupExtensionMessage
    ELSE IF toUpperCase(ext.grammars[key]) = "COBOL"
         THEN LET head == IF Len(dupExtensionMessage) = 0
                             /\ settings.ignore_unsafe_extensions = FALSE
                          THEN <<"warning">> ELSE <<>>
              IN grammarsMessage(settings, ext, key + 1,
                                 dupExtensionMessage \o head \o <<ext.name>>)
         ELSE grammarsMessage(settings, ext, key + 1, dupExtensionMessage)

RECURSIVE extensionsMessage(_, _, _)
extensionsMessage(settings, exts, dupExtensionMessage) ==
    IF exts = {} THEN dupExtensionMessage
    ELSE LET ext == CHOOSE e \in exts : TRUE
         IN IF ext.publisher = "bitlang"
            THEN extensionsMessage(settings, exts \ {ext}, dupExtensionMessage)
            ELSE extensionsMessage(settings, exts \ {ext},
                                   grammarsMessage(settings, ext, 1, dupExtensionMessage))

checkForExtensionConflicts(settings, exts) == extensionsMessage(settings, exts, <<>>)

(***************************************************************************)
(* initExtensionSearchPaths (lines 167-247).  lists is the pair of arrays  *)
(* being built: search (fileSearchDirectory) and invalid                   *)
(* (invalidSearchDirectory).                                               *)
(***************************************************************************)
\* the lists as a run finds them, had lines 175-179 not emptied them
KeptLists == [search |-> fileSearchDirectory, invalid |-> invalidSearchDirectory]

EmptyLists == [search |-> <<>>, invalid |-> <<>>]

pushSearch(lists, dir) == [lists EXCEPT !.search = Append(@, dir)]

pushInvalid(lists, dir) == [lists EXCEPT !.invalid = Append(@, dir)]

\* the indexes of copybookdirs whose isDirectory call is timed (line 197 is reached)
TimedDirs(settings) ==
    {i \in 1..Len(settings.copybookdirs) :
        /\ ~(settings.disable_unc_copybooks_directories
             /\ isNetworkPath(settings.copybookdirs[i]))
        /\ isDirectPath(settings.copybookdirs[i])}

\* the paths whose fs.statSync answer the model fixes: every direct copybook dir
\* and every relative copybook dir joined to every workspace folder
StatPaths(settings, folders) ==
    {settings.copybookdirs[i] :
        i \in {j \in 1..Len(settings.copybookdirs) : isDirectPath(settings.copybookdirs[j])}}
    \cup {PathJoin(folders[k], settings.copybookdirs[i]) :
            k \in 1..Len(folders),
            i \in {j \in 1..Len(settings.copybookdirs) :
                      ~isDirectPath(settings.copybookdirs[j])}}

\* step 1, the body of the loop over the copybook dirs (lines 183-210)
directDir_IgnoresUncSetting(settings, filesystem, timing, i, lists) ==
    LET ddir == settings.copybookdirs[i]
    IN IF isDirectPath(ddir)
       THEN IF isDirectory(filesystem, ddir)
            THEN IF i \in DOMAIN timing => timing[i] <= SlowThresholdMS
                 THEN pushSearch(lists, ddir)
                 ELSE pushInvalid(lists, ddir)
            ELSE pushInvalid(lists, ddir)
       ELSE lists

directDir(settings, filesystem, timing, i, lists) ==
    LET ddir == settings.copybookdirs[i]
    IN IF settings.disable_unc_copybooks_directories /\ isNetworkPath(ddir)
       THEN pushInvalid(lists, ddir)
       ELSE IF isDirectPath(ddir)
            THEN IF isDirectory(filesystem, ddir)
                 THEN IF timing[i] <= SlowThresholdMS
                      THEN pushSearch(lists, ddir)
                      ELSE pushInvalid(lists, ddir)
                 ELSE pushInvalid(lists, ddir)
            ELSE lists

RECURSIVE step1(_, _, _, _, _)
step1(settings, filesystem, timing, i, lists) ==
    IF i > Len(settings.copybookdirs) THEN lists
    ELSE step1(settings, filesystem, timing, i + 1,
               directDir(settings, filesystem, timing, i, lists))

\* step 2, the body of the inner loop (lines 222-241)
relativeDir_DropsMissing(filesystem, folder, extdir, lists) ==
    IF isDirectPath(extdir) = FALSE
    THEN LET sdir == PathJoin(folder, extdir)
         IN IF isDirectory(filesystem, sdir)
            THEN pushSearch(lists, sdir)
            ELSE lists
    ELSE lists

relativeDir(filesystem, folder, extdir, lists) ==
    IF isDirectPath(extdir) = FALSE
    THEN LET sdir == PathJoin(folder, extdir)
         IN IF isDirectory(filesystem, sdir)
            THEN pushSearch(lists, sdir)
            ELSE pushInvalid(lists, sdir)
    ELSE lists

RECURSIVE relativeDirs(_, _, _, _, _)
relativeDirs(settings, filesystem, folder, i, lists) ==
    IF i > Len(settings.copybookdirs) THEN lists
    ELSE relativeDirs(settings, filesystem, folder, i + 1,
                      relativeDir(filesystem, folder, settings.copybookdirs[i], lists))

\* step 2, the body of the loop over the workspace folders (lines 216-242)
workspaceFolder_DirsFirst(settings, filesystem, folder, lists) ==
    pushSearch(relativeDirs(settings, filesystem, folder, 1, lists), folder)

workspaceFolder(settings, filesystem, folder, lists) ==
    relativeDirs(settings, filesystem, folder, 1, pushSearch(lists, folder))

RECURSIVE workspaceFolders(_, _, _, _, _)
workspaceFolders(settings, filesystem, folders, k, lists) ==
    IF k > Len(folders) THEN lists
    ELSE workspaceFolders(settings, filesystem, folders, k + 1,
                          workspaceFolder(settings, filesystem, folders[k], lists))

step2(settings, filesystem, wsf, lists) ==
    IF IsDefined(wsf)
    THEN workspaceFolders(settings, filesystem, ValueOf(wsf), 1, lists)
    ELSE lists

\* Array.prototype.indexOf, on positions 1..Len; 0 when absent
indexOf(arr, elem) ==
    IF elem \in Range(arr)
    THEN CHOOSE i \in 1..Len(arr) : arr[i] = elem /\ \A j \in 1..(i - 1) : arr[j] # elem
    ELSE 0

\* arr.filter((elem, pos) => arr.indexOf(elem) === pos)   (lines 245-246)
RECURSIVE lastOccurrences(_, _)
lastOccurrences(arr, pos) ==
    IF pos > Len(arr) THEN <<>>
    ELSE (IF \A j \in (pos + 1)..Len(arr) : arr[j] # arr[pos] THEN <<arr[pos]>> ELSE <<>>)
         \o lastOccurrences(arr, pos + 1)

removeDuplicates_KeepLast(arr) == lastOccurrences(arr, 1)

RECURSIVE filterFirstOccurrences(_, _)
filterFirstOccurrences(arr, pos) ==
    IF pos > Len(arr) THEN <<>>
    ELSE (IF indexOf(arr, arr[pos]) = pos THEN <<arr[pos]>> ELSE <<>>)
         \o filterFirstOccurrences(arr, pos + 1)

removeDuplicates(arr) == filterFirstOccurrences(arr, 1)

\* the two lists when the function returns
searchPathLists(settings, filesystem, wsf, timing) ==
    LET built == step2(settings, filesystem, wsf,
                       step1(settings, filesystem, timing, 1, EmptyLists))
    IN [search |-> removeDuplicates(built.search),
        invalid |-> removeDuplicates(built.invalid)]

\* initExtensionSearchPaths (lines 167-247) with the settings, the installed
\* extensions, the filesystem and the workspace folders it finds
\* the condition of line 170 without its test of messageBoxDone
showMessageBox_EveryTime(settings, message) ==
    /\ Len(message) # 0
    /\ settings.ignore_unsafe_extensions = FALSE

\* the condition of line 170
showMessageBox(settings, message) ==
    /\ Len(message) # 0
    /\ settings.ignore_unsafe_extensions = FALSE
    /\ messageBoxDone = FALSE

initExtensionSearchPaths(settings, exts, filesystem, wsf, timing) ==
    LET message == checkForExtensionConflicts(settings, exts)
        showBox == showMessageBox(settings, message)
        lists   == searchPathLists(settings, filesystem, wsf, timing)
    IN /\ checkForExtensionConflictsMessage' = message
       /\ messageBoxDone' = (messageBoxDone \/ showBox)
       /\ messageBoxes' = IF showBox THEN messageBoxes + 1 ELSE messageBoxes
       /\ fileSearchDirectory' = lists.search
       /\ invalidSearchDirectory' = lists.invalid
       /\ elapsed' = timing
       /\ initRuns' = 1
       /\ dropped' = \/ Range(fileSearchDirectory) \ Range(lists.search) # {}
                     \/ Range(invalidSearchDirectory) \ Range(lists.invalid) # {}

\* the run an event handler makes has a message to show and finds messageBoxDone set
stoppedByMessageBoxDone(settings, exts) ==
    /\ Len(checkForExtensionConflicts(settings, exts)) # 0
    /\ settings.ignore_unsafe_extensions = FALSE
    /\ messageBoxDone

(***************************************************************************)
(* Source text and its scan.  COBOLQuickParse and SharedSourceReferences   *)
(* are not part of src/: the scan is modelled from the specification (a    *)
(* table of paragraphs and one of sections, each name once compared        *)
(* case-insensitively, every token with its declaring file and its         *)
(* procedure-division flag; the referenced targets keyed by lower-case     *)
(* name).  A text is what the scanner finds in it: the declarations in     *)
(* source order and the names its PERFORM / GO TO statements mention, as   *)
(* written.                                                                *)
(***************************************************************************)
MaxParagraphs == 2

MaxSections == 1

NameChoices == {<<"a">>, <<"A">>, <<"b">>}

ReferenceChoices == {<<"A">>, <<"b">>}

\* String.prototype.toLowerCase, character by character
lowerChar(c) ==
    CASE c = "A" -> "a"
      [] c = "B" -> "b"
      [] OTHER -> c

toLowerCase(str) == [i \in 1..Len(str) |-> lowerChar(str[i])]

startsWith(str, prefix) ==
    Len(str) >= Len(prefix) /\ SubSeq(str, 1, Len(prefix)) = prefix

DeclarationChoices ==
    [name : NameChoices, inCopybook : BOOLEAN, inProcedureDivision : BOOLEAN]

\* declarations whose names differ even when compared case-insensitively
DeclarationTables(n) ==
    {t \in SeqsUpTo(DeclarationChoices, n) :
        \A i, j \in 1..Len(t) : i # j => toLowerCase(t[i].name) # toLowerCase(t[j].name)}

TextChoices ==
    [paragraphs : DeclarationTables(MaxParagraphs),
     sections : DeclarationTables(MaxSections),
     references : SUBSET ReferenceChoices]

CopybookFileName == "copy.cpy"

\* the token of a declaration: the i-th declaration of a table starting at line base
tokenOf(decl, fileName, line) ==
    [tokenName |-> decl.name,
     filename |-> IF decl.inCopybook THEN CopybookFileName ELSE fileName,
     inProcedureDivision |-> decl.inProcedureDivision,
     startLine |-> line,
     startColumn |-> 7]

\* new SharedSourceReferences() filled by the scan: keyed by lower-case name
SharedSourceReferences(text) ==
    [targetReferences |-> {toLowerCase(r) : r \in text.references}]

\* new COBOLQuickParse(file, document.fileName, ...): the tables as Maps, i.e. the
\* [key, token] entries in insertion order
COBOLQuickParse(text, fileName) ==
    [filename |-> fileName,
     paragraphs |-> [i \in 1..Len(text.paragraphs) |->
                        [key |-> text.paragraphs[i].name,
                         token |-> tokenOf(text.paragraphs[i], fileName, i)]],
     sections |-> [i \in 1..Len(text.sections) |->
                      [key |-> text.sections[i].name,
                       token |-> tokenOf(text.sections[i], fileName,
                                         Len(text.paragraphs) + i)]]]

(***************************************************************************)
(* CobolUsageProvider (lines 1039-1140)                                    *)
(***************************************************************************)
NOREF == <<"n", "o", "r", "e", "f">>

\* vscode.Uri.file(f)
UriFile(f) == <<"file", f>>

\* new vscode.Diagnostic(r, key + what, this.diagCollect) with d.code = "noref(" + key + ")"
newDiagnostic(key, token, what) ==
    [range |-> [startLine |-> token.startLine,
                startColumn |-> token.startColumn,
                endLine |-> token.startLine,
                endColumn |-> token.startColumn + Len(token.tokenName)],
     message |-> key \o <<what>>,
     severity |-> "Information",
     code |-> Some(NOREF \o <<"(">> \o key \o <<")">>)]

\* lines 1078-1087 and 1100-1109: diagRefs is a Map from file name to Diagnostic[]
addDiagnostic(diagRefs, filename, d) ==
    IF filename \in DOMAIN diagRefs
    THEN [diagRefs EXCEPT ![filename] = Append(@, d)]
    ELSE [f \in DOMAIN diagRefs \cup {filename} |->
             IF f = filename THEN <<d>> ELSE diagRefs[f]]

\* the body of the loop over qp.paragraphs (lines 1070-1089)
paragraphEntry_NoLowerCase(entry, refs, diagRefs) ==
    IF (entry.key \in refs.targetReferences) = FALSE
    THEN addDiagnostic(diagRefs, entry.token.filename,
                       newDiagnostic(entry.key, entry.token, " paragraph is not referenced"))
    ELSE diagRefs

paragraphEntry_SameFile(entry, refs, diagRefs) ==
    LET workLower == toLowerCase(entry.key)
    IN IF (workLower \in refs.targetReferences) = FALSE
       THEN addDiagnostic(diagRefs, "main.cbl",
                          newDiagnostic(entry.key, entry.token, " paragraph is not referenced"))
       ELSE diagRefs

paragraphEntry(entry, refs, diagRefs) ==
    LET workLower == toLowerCase(entry.key)
    IN IF (workLower \in refs.targetReferences) = FALSE
       THEN addDiagnostic(diagRefs, entry.token.filename,
                          newDiagnostic(entry.key, entry.token, " paragraph is not referenced"))
       ELSE diagRefs

\* the body of the loop over qp.sections (lines 1091-1113)
sectionEntry(entry, refs, diagRefs) ==
    LET workLower == toLowerCase(entry.key)
    IN IF entry.token.inProcedureDivision
       THEN IF (workLower \in refs.targetReferences) = FALSE
            THEN addDiagnostic(diagRefs, entry.token.filename,
                               newDiagnostic(entry.key, entry.token, " section is not referenced"))
            ELSE diagRefs
       ELSE diagRefs

RECURSIVE paragraphsLoop(_, _, _, _)
paragraphsLoop(entries, refs, i, diagRefs) ==
    IF i > Len(entries) THEN diagRefs
    ELSE paragraphsLoop(entries, refs, i + 1, paragraphEntry(entries[i], refs, diagRefs))

RECURSIVE sectionsLoop(_, _, _, _)
sectionsLoop(entries, refs, i, diagRefs) ==
    IF i > Len(entries) THEN diagRefs
    ELSE sectionsLoop(entries, refs, i + 1, sectionEntry(entries[i], refs, diagRefs))

\* an empty Map (new Map(), collection.clear())
EmptyMap == [f \in {} |-> <<>>]

\* lines 1067-1113: the Map diagRefs after both loops
buildDiagRefs(qp, refs) ==
    sectionsLoop(qp.sections, refs, 1, paragraphsLoop(qp.paragraphs, refs, 1, EmptyMap))

\* lines 1068 and 1116-1119: collection.clear(), then collection.set(uri, value)
\* for every entry of diagRefs
publish_KeepsEarlier(diagRefs) ==
    [u \in DOMAIN collection \cup {UriFile(f) : f \in DOMAIN diagRefs} |->
        IF u[2] \in DOMAIN diagRefs THEN diagRefs[u[2]] ELSE collection[u]]

publish(diagRefs) ==
    [u \in {UriFile(f) : f \in DOMAIN diagRefs} |-> diagRefs[u[2]]]

\* the document a scan is constructed for
documentKey(document) == [fileName |-> document.fileName, version |-> document.version]

\* lines 1128-1130: this.current when the first if statement is left
currentForFile(document) ==
    IF IsDefined(current) /\ ValueOf(current).filename # document.fileName
    THEN Undefined
    ELSE current

\* the condition of line 1133
scanNeeded(document) ==
    ~IsDefined(currentForFile(document)) \/ currentVersion # Some(document.version)

\* lines 1134-1137 when both constructors return
scanned(document) ==
    [current |-> Some(COBOLQuickParse(document.text, document.fileName)),
     currentVersion |-> Some(document.version),
     sourceRefs |-> Some(SharedSourceReferences(document.text)),
     scanned |-> TRUE,
     builtFor |-> Some(documentKey(document))]

setupCOBOLQuickParse_AlwaysScans(document) == scanned(document)

setupCOBOLQuickParse_IgnoresFileName(document) ==
    IF ~IsDefined(current) \/ currentVersion # Some(document.version)
    THEN scanned(document)
    ELSE [current |-> current,
          currentVersion |-> currentVersion,
          sourceRefs |-> sourceRefs,
          scanned |-> FALSE,
          builtFor |-> builtFor]

\* setupCOBOLQuickParse (lines 1127-1140): the provider's fields afterwards, whether
\* a scan was made, and the document this.current was constructed for
setupCOBOLQuickParse(document) ==
    IF scanNeeded(document)
    THEN scanned(document)
    ELSE [current |-> currentForFile(document),
          currentVersion |-> currentVersion,
          sourceRefs |-> sourceRefs,
          scanned |-> FALSE,
          builtFor |-> builtFor]

\* lines 1134-1137 when a constructor throws: new VSCodeSourceHandler (line 1134)
\* before anything is assigned, or new COBOLQuickParse (line 1136) after
\* this.sourceRefs was assigned at line 1135 and the scan has put the references
\* `found' in it; this.current and this.currentVersion are not assigned
scanThrows(document, at, found) ==
    [current |-> currentForFile(document),
     currentVersion |-> currentVersion,
     sourceRefs |-> IF at = "COBOLQuickParse"
                    THEN Some([targetReferences |-> found])
                    ELSE sourceRefs,
     scanned |-> TRUE,
     builtFor |-> IF IsDefined(currentForFile(document)) THEN builtFor ELSE Undefined]

\* what is remembered of a call: the document, the document the cached scan was
\* constructed for when the call began, whether a scan was started, whether the
\* call returned, the document the scan it read was constructed for, and the
\* collection when the call ended
callRecord(document, after, completed, published) ==
    [fileName |-> document.fileName,
     version |-> document.version,
     cachedBefore |-> builtFor,
     scanned |-> after.scanned,
     completed |-> completed,
     read |-> IF completed THEN after.builtFor ELSE Undefined,
     published |-> published]

\* the calls that are remembered: the last two
lastCalls(seq) == IF Len(seq) > 2 THEN SubSeq(seq, Len(seq) - 1, Len(seq)) ELSE seq

notScanned ==
    [current |-> current, currentVersion |-> currentVersion, sourceRefs |-> sourceRefs,
     scanned |-> FALSE, builtFor |-> Undefined]

\* a provider whose test of line 1054 never holds
providerDisabled_Never == FALSE

\* the test of line 1054
providerDisabled == enabled = FALSE

\* updateDiagnostics (lines 1053-1120)
updateDiagnostics(document) ==
    IF providerDisabled
    THEN /\ UNCHANGED <<collection, current, currentVersion, sourceRefs, builtFor>>
         /\ calls' = lastCalls(Append(calls, callRecord(document, notScanned, TRUE, collection)))
    ELSE LET after == setupCOBOLQuickParse(document)
         IN /\ current' = after.current
            /\ currentVersion' = after.currentVersion
            /\ sourceRefs' = after.sourceRefs
            /\ builtFor' = after.builtFor
            /\ IF ~IsDefined(after.sourceRefs) \/ ~IsDefined(after.current)
               THEN UNCHANGED collection
               ELSE collection' = publish(buildDiagRefs(ValueOf(after.current),
                                                        ValueOf(after.sourceRefs)))
            /\ calls' = lastCalls(Append(calls, callRecord(document, after, TRUE, collection')))

\* updateDiagnostics when the scan of line 1058 throws: the exception leaves the
\* function before line 1060, the collection is not touched
updateDiagnosticsThrows(document, at, found) ==
    /\ enabled
    /\ scanNeeded(document)
    /\ LET after == scanThrows(document, at, found)
       IN /\ current' = after.current
          /\ currentVersion' = after.currentVersion
          /\ sourceRefs' = after.sourceRefs
          /\ builtFor' = after.builtFor
          /\ UNCHANGED collection
          /\ calls' = lastCalls(Append(calls, callRecord(document, after, FALSE, collection)))

documentOf(fileName) ==
    [fileName |-> fileName,
     version |-> openDocuments[fileName].version,
     text |-> openDocuments[fileName].text]

(***************************************************************************)
(* CobolUsageActionFixer.provideCodeActions (lines 1017-1037)              *)
(***************************************************************************)
MaxContextDiagnostics == 3

\* the quick fix pushed at lines 1024-1033
commentOutAction(documentUri, diagnostic) ==
    [title |-> <<"Comment out '">> \o diagnostic.message \o <<"'">>,
     diagnostics |-> <<diagnostic>>,
     command |-> [title |-> "Comment out",
                  command |-> "editor.action.addCommentLine",
                  arguments |-> <<documentUri,
                                  <<diagnostic.range.startLine, diagnostic.range.startColumn>>,
                                  diagnostic.code>>],
     kind |-> "QuickFix"]

\* the loop body of lines 1020-1034
codeActionFor(documentUri, diagnostic, actions) ==
    IF IsDefined(diagnostic.code) /\ startsWith(ValueOf(diagnostic.code), NOREF) = FALSE
    THEN actions                                                      \* continue
    ELSE Append(actions, commentOutAction(documentUri, diagnostic))

RECURSIVE codeActionsFrom(_, _, _, _)
codeActionsFrom(documentUri, diagnostics, i, actions) ==
    IF i > Len(diagnostics) THEN actions
    ELSE codeActionsFrom(documentUri, diagnostics, i + 1,
                         codeActionFor(documentUri, diagnostics[i], actions))

provideCodeActions(documentUri, diagnostics) ==
    codeActionsFrom(documentUri, diagnostics, 1, <<>>)

(***************************************************************************)
(* The source-editing commands registered by activate (lines 665-909).     *)
(* A call is the name of the function called followed by its arguments     *)
(* after the editor.                                                       *)
(***************************************************************************)
\* the test every one of these handlers makes on the active document's languageId
\* (lines 669, 681, 693, 706, ..., 861, 880)
isCommandLanguage(langid) ==
    langid = "COBOL" \/ langid = "OpenCOBOL" \/ langid = "ACUCOBOL"

\* the statement inside the language test of each handler
commandStatement(command) ==
    CASE command = "cobolplugin.removeAllComments" -> <<"RemoveComments">>
      [] command = "cobolplugin.removeIdentificationArea" -> <<"RemoveIdentificationArea">>
      [] command = "cobolplugin.removeColumnNumbers" -> <<"removeColumnNumbers">>
      [] command = "cobolplugin.makeKeywordsLowercase" ->
            <<"foldToken", "Keywords", "LowerCase">>
      [] command = "cobolplugin.makeKeywordsUppercase" ->
            <<"foldToken", "Keywords", "UpperCase">>
      [] command = "cobolplugin.makeKeywordsCamelCase" ->
            <<"foldToken", "Keywords", "CamelCase">>
      [] command = "cobolplugin.makeFieldsLowercase" ->
            <<"foldToken", "ConstantsOrVariables", "UpperCase">>
      [] command = "cobolplugin.makeFieldsUppercase" ->
            <<"foldToken", "ConstantsOrVariables", "UpperCase">>
      [] command = "cobolplugin.makeFieldsCamelCase" ->
            <<"foldToken", "ConstantsOrVariables", "CamelCase">>
      [] command = "cobolplugin.makePerformTargetsLowerCase" ->
            <<"foldToken", "PerformTargets", "LowerCase">>
      [] command = "cobolplugin.makePerformTargetsUpperCase" ->
            <<"foldToken", "PerformTargets", "UpperCase">>
      [] command = "cobolplugin.makePerformTargetsCamelCase" ->
            <<"foldToken", "PerformTargets", "CamelCase">>
      [] command = "cobolplugin.extractSelectionToParagraph" ->
            <<"extractSelectionTo", "true">>
      [] command = "cobolplugin.extractSelectionToSection" ->
            <<"extractSelectionTo", "false">>
      [] command = "cobolplugin.extractSelectionToCopybook" ->
            <<"extractSelectionToCopybook">>
      [] command = "cobolplugin.showDocumentation" -> <<"showCOBOLDOCDocumentation">>
      [] command = "cobolplugin.generateSourceTag" -> <<"generateCOBOLSourceTag">>
      [] command = "cobolplugin.resequenceColumnNumbers" -> <<"showInputBox">>

EditingCommands ==
    {"cobolplugin.removeAllComments", "cobolplugin.removeIdentificationArea",
     "cobolplugin.removeColumnNumbers",
     "cobolplugin.makeKeywordsLowercase", "cobolplugin.makeKeywordsUppercase",
     "cobolplugin.makeKeywordsCamelCase",
     "cobolplugin.makeFieldsLowercase", "cobolplugin.makeFieldsUppercase",
     "cobolplugin.makeFieldsCamelCase",
     "cobolplugin.makePerformTargetsLowerCase", "cobolplugin.makePerformTargetsUpperCase",
     "cobolplugin.makePerformTargetsCamelCase",
     "cobolplugin.extractSelectionToParagraph", "cobolplugin.extractSelectionToSection",
     "cobolplugin.extractSelectionToCopybook",
     "cobolplugin.showDocumentation", "cobolplugin.generateSourceTag",
     "cobolplugin.resequenceColumnNumbers"}

\* a handler: if (activeTextEditor) { if (langid === ...) { statement } }
editingCommand(command, editor) ==
    IF IsDefined(editor)
    THEN IF isCommandLanguage(ValueOf(editor).languageId)
         THEN <<commandStatement(command)>>
         ELSE <<>>
    ELSE <<>>

\* cobolplugin.commentline (lines 388-403)
commentLine(editor, lineComment) ==
    IF IsDefined(editor)
    THEN IF isCommandLanguage(ValueOf(editor).languageId)
         THEN IF lineComment
              THEN <<(<<"commenter.processCommentLine">>)>>
              ELSE <<(<<"executeCommand", "editor.action.commentLine">>)>>
         ELSE <<>>
    ELSE <<(<<"executeCommand", "editor.action.commentLine">>)>>

\* cobolplugin.mfurunMenu (lines 647-662).  fileUri is the argument the command is
\* invoked with, undefined when it is invoked without one; enableAnsiColor and
\* prefRunner are what getMFUnitAnsiColorConfig and the properties file answer.
terminalName == "UnitTest"

createTerminal(name) == [name |-> name, shown |-> 0, text |-> <<>>]

\* lines 649-651
terminalsAfterCreate ==
    IF unitTestTerminal = Undefined
    THEN Append(terminals, createTerminal(terminalName))
    ELSE terminals

unitTestTerminalAfterCreate ==
    IF unitTestTerminal = Undefined
    THEN Some(Len(terminals) + 1)
    ELSE unitTestTerminal

\* line 653
show(terms, t) == [terms EXCEPT ![t].shown = @ + 1]

\* lines 659-661
runnerLine(fileUri, enableAnsiColor, prefRunner) ==
    <<prefRunner, "-show-progress", IF enableAnsiColor THEN "-dc:ansi" ELSE "", fileUri>>

sendText(terms, t, line) == [terms EXCEPT ![t].text = Append(@, line)]

mfurunMenu(fileUri, enableAnsiColor, prefRunner) ==
    LET t == ValueOf(unitTestTerminalAfterCreate)
        shown == show(terminalsAfterCreate, t)
        made == IF unitTestTerminal = Undefined
                THEN <<(<<"createTerminal">>), <<"show">>>>
                ELSE <<(<<"show">>)>>
    IN /\ unitTestTerminal' = unitTestTerminalAfterCreate
       /\ IF IsDefined(fileUri)
          THEN /\ terminals' = sendText(shown, t, runnerLine(ValueOf(fileUri),
                                                             enableAnsiColor, prefRunner))
               /\ commandCalls' = Append(made, <<"sendText">>)
          \* fileUri.fsPath of line 657 throws a TypeError
          ELSE /\ terminals' = shown
               /\ commandCalls' = Append(made, <<"TypeError">>)
       /\ lastCommand' = "cobolplugin.mfurunMenu"

(***************************************************************************)
(* cobolplugin.resequenceColumnNumbers (lines 876-908): the prompt and the  *)
(* function that receives what the prompt resolved with.  A text is the    *)
(* sequence of its characters; a number is a sequence of at most one       *)
(* integer, the empty one being NaN.                                       *)
(***************************************************************************)
NaN == <<>>

\* validateInput (lines 884-890): the message, or undefined when the text is accepted
validateInput(text) ==
    IF Len(text) = 0 \/ ~(\E i \in 1..Len(text) : text[i] = " ")
    THEN Some("You must enter two numbers")
    ELSE Undefined

\* String.prototype.split(" ")
RECURSIVE splitFrom(_, _, _, _)
splitFrom(text, i, field, fields) ==
    IF i > Len(text) THEN Append(fields, field)
    ELSE IF text[i] = " "
         THEN splitFrom(text, i + 1, <<>>, Append(fields, field))
         ELSE splitFrom(text, i + 1, Append(field, text[i]), fields)

split(text) == splitFrom(text, 1, <<>>, <<>>)

\* values[k]: undefined past the end of the array
elementAt(values, k) == IF k <= Len(values) THEN Some(values[k]) ELSE Undefined

Digits == <<"0", "1", "2", "3", "4", "5", "6", "7", "8", "9", "a", "b", "c", "d", "e", "f">>

isDigit(c, radix) == \E d \in 1..radix : Digits[d] = c

digitOf(c) == (CHOOSE d \in 1..Len(Digits) : Digits[d] = c) - 1

\* the digits of str from position i on, up to the first character that is none
RECURSIVE digitsFrom(_, _, _, _)
digitsFrom(str, i, radix, acc) ==
    IF i > Len(str) \/ ~isDigit(str[i], radix) THEN acc
    ELSE digitsFrom(str, i + 1, radix, IF acc = NaN
                                       THEN Some(digitOf(str[i]))
                                       ELSE Some(ValueOf(acc) * radix + digitOf(str[i])))

\* Number.parseInt of a string without white space, no radix given: an optional
\* sign, an optional 0x, then digits; NaN when there is no digit
parseIntOf(str) ==
    LET signed == Len(str) >= 1 /\ str[1] \in {"-", "+"}
        first == IF signed THEN 2 ELSE 1
        hex == /\ Len(str) >= first + 1
               /\ str[first] = "0"
               /\ str[first + 1] \in {"x", "X"}
        magnitude == IF hex THEN digitsFrom(str, first + 2, 16, NaN)
                     ELSE digitsFrom(str, first, 10, NaN)
    IN IF magnitude = NaN THEN NaN
       ELSE IF signed /\ str[1] = "-" THEN Some(0 - ValueOf(magnitude)) ELSE magnitude

\* Number.parseInt(values[k]): undefined is read as the string "undefined"
parseInt(value) == IF IsDefined(value) THEN parseIntOf(ValueOf(value)) ELSE NaN

\* a >= n: false when a is NaN
greaterOrEqual(a, n) == a # NaN /\ ValueOf(a) >= n

\* the test of line 899 letting an increment of zero through
validSequence_ZeroIncrement(startValue, incrementValue) ==
    greaterOrEqual(startValue, 0) /\ greaterOrEqual(incrementValue, 0)

\* the test of line 899
validSequence(startValue, incrementValue) ==
    greaterOrEqual(startValue, 0) /\ greaterOrEqual(incrementValue, 1)

\* the function given to then (lines 891-905)
promptResolved(value) ==
    IF value = Undefined THEN <<>>
    ELSE LET values == split(ValueOf(value))
             startValue == parseInt(elementAt(values, 1))
             incrementValue == parseInt(elementAt(values, 2))
         IN IF validSequence(startValue, incrementValue)
            THEN <<(<<"resequenceColumnNumbers", ValueOf(startValue),
                      ValueOf(incrementValue)>>)>>
            ELSE <<(<<"showErrorMessage", "Sorry invalid re-sequence given">>)>>

(***************************************************************************)
(* The session: the cache steps of activate (lines 911-927), deactivate    *)
(* (lines 941-950) and the editor event handlers (lines 611-643).          *)
(* VSCOBOLConfiguration, VSQuickCOBOLParse and the linter are not part of  *)
(* src/: caching is a setting, the cache directory is set exactly when     *)
(* caching is enabled, processAllFilesInWorkspaces starts a sweep that     *)
(* goes on asynchronously, and updateLinter recomputes the diagnostics of  *)
(* the document it is given.                                               *)
(***************************************************************************)
\* VSCOBOLConfiguration.isCachingEnabled()
isCachingEnabled(settings) == settings.cache_metadata

\* VSQuickCOBOLParse.getCacheDirectory()
getCacheDirectory(settings) == IF settings.cache_metadata THEN ".vscode_cobol" ELSE ""

\* lines 911-916
loadCaches(settings) ==
    IF getCacheDirectory(settings) # ""
    THEN <<"loadInMemoryGlobalSymbolCaches", "loadInMemoryGlobalFileCache">>
    ELSE <<>>

\* lines 922-927: pm_cache_promise() is called and not awaited
startSweep(settings) ==
    IF settings.process_metadata_cache_on_start
    THEN <<"processAllFilesInWorkspaces">>
    ELSE <<>>

activateCacheSteps_SweepFirst(settings) ==
    startSweep(settings) \o loadCaches(settings) \o <<"activate returns">>

activateCacheSteps_AlwaysSweeps(settings) ==
    loadCaches(settings) \o <<"processAllFilesInWorkspaces", "activate returns">>

\* lines 911-929, in order
activateCacheSteps(settings) ==
    loadCaches(settings) \o startSweep(settings) \o <<"activate returns">>

deactivateAsync_AlwaysSaves(settings) ==
    <<"saveInMemoryGlobalCaches", "formatStatusBarItem.dispose">>

\* lines 941-946
deactivateAsync(settings) ==
    IF isCachingEnabled(settings)
    THEN <<"saveInMemoryGlobalCaches", "formatStatusBarItem.dispose">>
    ELSE <<>>

\* lines 948-950
deactivate(settings) == deactivateAsync(settings) \o <<"deactivate returns">>

\* what a handler did: the event, the document that changed (if the event is a
\* change) and the document given to linter.updateLinter (if any)
handled(event, changed, linted) == [event |-> event, changed |-> changed, linted |-> linted]

\* lines 627-633: workspace.onDidChangeTextDocument
onDidChangeTextDocument(changed, editor) ==
    IF ~IsDefined(editor)
    THEN handled("onDidChangeTextDocument", Some(changed), Undefined)
    ELSE handled("onDidChangeTextDocument", Some(changed), Some(ValueOf(editor).fileName))

\* lines 611-618: window.onDidChangeActiveTextEditor
onDidChangeActiveTextEditor(editor) ==
    IF ~IsDefined(editor)
    THEN handled("onDidChangeActiveTextEditor", Undefined, Undefined)
    ELSE handled("onDidChangeActiveTextEditor", Undefined, Some(ValueOf(editor).fileName))

\* lines 640-643: the end of the registrations in activate
lintActiveEditor(editor) ==
    IF IsDefined(editor)
    THEN handled("activate", Undefined, Some(ValueOf(editor).fileName))
    ELSE handled("activate", Undefined, Undefined)

(***************************************************************************)
(* Initial values.  Each specification below exercises one part of the     *)
(* extension and leaves the variables of the other parts at rest.          *)
(***************************************************************************)
\* a filesystem that can exist: a workspace folder is not a plain file, and below
\* a path that is missing or a plain file nothing exists
ParentOf(p) == [p EXCEPT !.segs = SubSeq(@, 1, Len(@) - 1)]

ConsistentFs(filesystem, wsFolders) ==
    /\ \A k \in 1..Len(wsFolders) :
          wsFolders[k] \in DOMAIN filesystem => filesystem[wsFolders[k]] # "file"
    /\ \A p \in DOMAIN filesystem :
          (Len(p.segs) > 0 /\ ParentOf(p) \in DOMAIN filesystem /\ filesystem[p] # "ENOENT")
              => filesystem[ParentOf(p)] = "dir"

SettingsChoices ==
    [copybookdirs : SeqsUpTo(CopybookDirChoices, MaxCopybookDirs),
     disable_unc_copybooks_directories : BOOLEAN,
     ignore_unsafe_extensions : BOOLEAN]

\* the module state when extension.ts has been loaded (lines 79-80, 165-166)
ModuleLoaded ==
    /\ fileSearchDirectory = <<>>
    /\ invalidSearchDirectory = <<>>
    /\ checkForExtensionConflictsMessage = <<>>
    /\ messageBoxDone = FALSE
    /\ elapsed = <<>>
    /\ messageBoxes = 0
    /\ initRuns = 0
    /\ lastEvent = "none"
    /\ dropped = FALSE
    /\ suppressed = FALSE

PathInit ==
    /\ config \in SettingsChoices
    /\ ws \in WorkspaceChoices
    /\ fs \in [StatPaths(config, IF IsDefined(ws) THEN ValueOf(ws) ELSE <<>>) -> StatOutcomes]
    /\ ConsistentFs(fs, IF IsDefined(ws) THEN ValueOf(ws) ELSE <<>>)
    /\ extensionsAll = InstalledExtensions
    /\ ModuleLoaded

PathAtRest ==
    /\ config = [copybookdirs |-> <<>>,
                 disable_unc_copybooks_directories |-> FALSE,
                 ignore_unsafe_extensions |-> FALSE]
    /\ ws = Undefined
    /\ fs = EmptyMap
    /\ extensionsAll = {}
    /\ ModuleLoaded

MainFileName == "main.cbl"

OtherFileName == "other.cbl"

\* the second document: one paragraph that nothing references
OtherText ==
    [paragraphs |-> <<[name |-> <<"b">>, inCopybook |-> FALSE, inProcedureDivision |-> TRUE]>>,
     sections |-> <<>>,
     references |-> {}]

\* new CobolUsageProvider(collection, enabled) (lines 1045-1049, 1122-1124)
ProviderConstructed ==
    /\ collection = EmptyMap
    /\ current = Undefined
    /\ currentVersion = Undefined
    /\ sourceRefs = Undefined
    /\ builtFor = Undefined
    /\ calls = <<>>

UsageInit ==
    /\ \E text \in TextChoices :
          openDocuments = [f \in {MainFileName, OtherFileName} |->
                              [version |-> 1,
                               text |-> IF f = MainFileName THEN text ELSE OtherText]]
    /\ enabled \in BOOLEAN
    /\ ProviderConstructed

UsageAtRest ==
    /\ openDocuments = EmptyMap
    /\ enabled = FALSE
    /\ ProviderConstructed

FixerInit ==
    /\ context = <<>>
    /\ codeActions = Undefined

\* no command has been invoked and no editor event handled
HandlersAtRest ==
    /\ lastCommand = "none"
    /\ commandCalls = <<>>
    /\ lastHandled = Undefined

\* the module state of line 81: no terminal; no prompt is open
CommandsLoaded ==
    /\ unitTestTerminal = Undefined
    /\ terminals = <<>>
    /\ inputBox = "none"
    /\ promptValue = Undefined

EditorAtRest ==
    /\ activeTextEditor = Undefined
    /\ lineCommentEnabled = FALSE
    /\ HandlersAtRest
    /\ CommandsLoaded

\* extension.ts has been loaded, activate has not been called
SessionLoaded ==
    /\ phase = "loaded"
    /\ activatedWith = Undefined
    /\ lifecycle = <<>>
    /\ sweep = "none"

SessionAtRest ==
    /\ cacheSettings = [cache_metadata |-> FALSE, process_metadata_cache_on_start |-> FALSE]
    /\ SessionLoaded

OthersAtRest == EditorAtRest /\ SessionAtRest

(***************************************************************************)
(* The search-path specification: any settings, workspace folders and      *)
(* filesystem; initExtensionSearchPaths runs (activate, line 346) and runs *)
(* again (lines 328-347, 492-496), each run with its own timings.          *)
(***************************************************************************)
RunInitExtensionSearchPaths ==
    /\ \E timing \in [TimedDirs(config) -> Durations] :
          initExtensionSearchPaths(config, extensionsAll, fs, ws, timing)
    /\ lastEvent' = "activate"
    /\ UNCHANGED <<config, ws, fs, extensionsAll, suppressed>>
    /\ UNCHANGED <<usageVars, fixerVars, editorVars, sessionVars>>

PathNext == RunInitExtensionSearchPaths

vars == <<pathVars, usageVars, fixerVars, editorVars, sessionVars>>

Init == PathInit /\ UsageAtRest /\ FixerInit /\ OthersAtRest

Spec == Init /\ [][PathNext]_vars

(***************************************************************************)
(* The re-initialisation specification: after activate, the settings, the  *)
(* installed extensions and the workspace folders change; each change is   *)
(* an event whose handler reads the settings anew and runs                 *)
(* activateLogChannelAndPaths, which runs initExtensionSearchPaths (line   *)
(* 273).  The filesystem an event finds may differ in one path from the    *)
(* one the event before found.                                             *)
(***************************************************************************)
ReinitSettingsChoices ==
    [copybookdirs : {<<>>,
                     <<Rel(<<"cpy">>)>>,
                     <<Abs(<<"w", "cpy">>), Rel(<<"cpy">>)>>,
                     <<Unc(<<"s", "cpy">>), Abs(<<"w", "cpy">>)>>},
     disable_unc_copybooks_directories : BOOLEAN,
     ignore_unsafe_extensions : {FALSE}]
    \cup [copybookdirs : {<<>>},
          disable_unc_copybooks_directories : {FALSE},
          ignore_unsafe_extensions : {TRUE}]

ReinitWorkspaceChoices ==
    {Undefined, Some(<<Abs(<<"w">>)>>), Some(<<Unc(<<"s">>), Abs(<<"w">>)>>)}

ReinitPaths == {Abs(<<"w">>), Abs(<<"w", "cpy">>), Unc(<<"s">>), Unc(<<"s", "cpy">>)}

ExtensionChoices ==
    {InstalledExtensions, {e \in InstalledExtensions : e.publisher = "bitlang"}}

foldersOf(wsf) == IF IsDefined(wsf) THEN ValueOf(wsf) ELSE <<>>

\* the filesystem an event finds: at most one path answers differently; the share
\* itself is always there
ReinitStatOutcomes == {"dir", "ENOENT"}

ChangingPaths == ReinitPaths \ {Unc(<<"s">>)}

FilesystemNow(wsf) ==
    {filesystem \in {fs} \cup {[fs EXCEPT ![p] = IF @ = "dir" THEN "ENOENT" ELSE "dir"] :
                                   p \in ChangingPaths} :
        ConsistentFs(filesystem, foldersOf(wsf))}

ReinitInit ==
    /\ config \in ReinitSettingsChoices
    /\ ws \in ReinitWorkspaceChoices
    /\ fs \in [ReinitPaths -> ReinitStatOutcomes]
    /\ fs[Unc(<<"s">>)] = "dir"
    /\ ConsistentFs(fs, foldersOf(ws))
    /\ extensionsAll \in ExtensionChoices
    /\ ModuleLoaded

\* lines 335-338: workspace.onDidChangeConfiguration
OnDidChangeConfiguration ==
    /\ initRuns = 1
    /\ \E settings \in ReinitSettingsChoices, filesystem \in FilesystemNow(ws) :
          /\ config' = settings
          /\ fs' = filesystem
          /\ \E timing \in [TimedDirs(settings) -> Durations] :
                initExtensionSearchPaths(settings, extensionsAll, filesystem, ws, timing)
    /\ lastEvent' = "onDidChangeConfiguration"
    /\ suppressed' = stoppedByMessageBoxDone(config', extensionsAll)
    /\ UNCHANGED <<ws, extensionsAll>>
    /\ UNCHANGED <<usageVars, fixerVars, editorVars, sessionVars>>

\* lines 328-331: vscode.extensions.onDidChange
OnExtChange ==
    /\ initRuns = 1
    /\ \E exts \in ExtensionChoices, filesystem \in FilesystemNow(ws) :
          /\ extensionsAll' = exts
          /\ fs' = filesystem
          /\ \E timing \in [TimedDirs(config) -> Durations] :
                initExtensionSearchPaths(config, exts, filesystem, ws, timing)
    /\ lastEvent' = "onExtChange"
    /\ suppressed' = stoppedByMessageBoxDone(config, extensionsAll')
    /\ UNCHANGED <<config, ws>>
    /\ UNCHANGED <<usageVars, fixerVars, editorVars, sessionVars>>

\* lines 492-495: workspace.onDidChangeWorkspaceFolders
OnDidChangeWorkspaceFolders ==
    /\ initRuns = 1
    /\ \E wsf \in ReinitWorkspaceChoices : \E filesystem \in FilesystemNow(wsf) :
          /\ ws' = wsf
          /\ fs' = filesystem
          /\ \E timing \in [TimedDirs(config) -> Durations] :
                initExtensionSearchPaths(config, extensionsAll, filesystem, wsf, timing)
    /\ lastEvent' = "onDidChangeWorkspaceFolders"
    /\ suppressed' = stoppedByMessageBoxDone(config, extensionsAll)
    /\ UNCHANGED <<config, extensionsAll>>
    /\ UNCHANGED <<usageVars, fixerVars, editorVars, sessionVars>>

ReinitNext ==
    \/ RunInitExtensionSearchPaths
    \/ OnDidChangeConfiguration
    \/ OnExtChange
    \/ OnDidChangeWorkspaceFolders

ReinitSpecInit == ReinitInit /\ UsageAtRest /\ FixerInit /\ OthersAtRest

ReinitSpec == ReinitSpecInit /\ [][ReinitNext]_vars

(***************************************************************************)
(* The diagnostics specification: a provider, enabled or not, and two open *)
(* documents; updateDiagnostics is called with either, in any order.       *)
(***************************************************************************)
UpdateDiagnostics ==
    /\ \E f \in DOMAIN openDocuments : updateDiagnostics(documentOf(f))
    /\ UNCHANGED <<openDocuments, enabled>>
    /\ UNCHANGED <<pathVars, fixerVars, editorVars, sessionVars>>

UsageNext == UpdateDiagnostics

UsageSpecInit == UsageInit /\ PathAtRest /\ FixerInit /\ OthersAtRest

UsageSpec == UsageSpecInit /\ [][UsageNext]_vars

(***************************************************************************)
(* The provider specification: the documents are edited (every edit gives  *)
(* the document its next version number), updateDiagnostics is called with *)
(* any open document at any time, and a scan may throw part-way.           *)
(***************************************************************************)
MaxVersion == 2

UnreferencedText ==
    [paragraphs |-> <<[name |-> <<"A">>, inCopybook |-> FALSE, inProcedureDivision |-> TRUE]>>,
     sections |-> <<>>,
     references |-> {}]

ReferencedText ==
    [paragraphs |-> <<[name |-> <<"A">>, inCopybook |-> FALSE, inProcedureDivision |-> TRUE]>>,
     sections |-> <<[name |-> <<"b">>, inCopybook |-> TRUE, inProcedureDivision |-> TRUE]>>,
     references |-> {<<"A">>, <<"b">>}]

ProviderTextChoices == {UnreferencedText, ReferencedText, OtherText}

\* the collection a provider is constructed with (line 1046) is the caller's: it is
\* empty, or holds what was published to it before
EarlierCollection ==
    LET diagRefs == buildDiagRefs(COBOLQuickParse(UnreferencedText, OtherFileName),
                                  SharedSourceReferences(UnreferencedText))
    IN [u \in {UriFile(f) : f \in DOMAIN diagRefs} |-> diagRefs[u[2]]]

ProviderInit ==
    /\ openDocuments \in [{MainFileName, OtherFileName} ->
                             [version : {1}, text : ProviderTextChoices]]
    /\ enabled \in BOOLEAN
    /\ collection \in IF enabled THEN {EmptyMap} ELSE {EmptyMap, EarlierCollection}
    /\ current = Undefined
    /\ currentVersion = Undefined
    /\ sourceRefs = Undefined
    /\ builtFor = Undefined
    /\ calls = <<>>

\* an edit: the document has other text and the next version number
ChangeTextDocument ==
    /\ \E f \in DOMAIN openDocuments, text \in ProviderTextChoices :
          /\ openDocuments[f].version < MaxVersion
          /\ text # openDocuments[f].text
          /\ openDocuments' = [openDocuments EXCEPT
                                  ![f] = [version |-> @.version + 1, text |-> text]]
    /\ UNCHANGED <<enabled, collection, current, currentVersion, sourceRefs, builtFor, calls>>
    /\ UNCHANGED <<pathVars, fixerVars, editorVars, sessionVars>>

UpdateDiagnosticsThrows ==
    /\ \E f \in DOMAIN openDocuments, at \in {"VSCodeSourceHandler", "COBOLQuickParse"} :
          \E found \in SUBSET SharedSourceReferences(openDocuments[f].text).targetReferences :
             updateDiagnosticsThrows(documentOf(f), at, found)
    /\ UNCHANGED <<openDocuments, enabled>>
    /\ UNCHANGED <<pathVars, fixerVars, editorVars, sessionVars>>

ProviderNext == ChangeTextDocument \/ UpdateDiagnostics \/ UpdateDiagnosticsThrows

ProviderSpecInit == ProviderInit /\ PathAtRest /\ FixerInit /\ OthersAtRest

ProviderSpec == ProviderSpecInit /\ [][ProviderNext]_vars

(***************************************************************************)
(* The command specification: after activate, with no editor or with an    *)
(* editor on a document of any language, the commands are invoked in any   *)
(* order.                                                                  *)
(***************************************************************************)
LanguageIds == {"COBOL", "ACUCOBOL", "OpenCOBOL", "GnuCOBOL", "entcobol", "JCL", "plaintext"}

EditorChoices ==
    {Undefined} \cup {Some([fileName |-> MainFileName, languageId |-> l]) : l \in LanguageIds}

CommandInit ==
    /\ activeTextEditor \in EditorChoices
    /\ lineCommentEnabled \in BOOLEAN
    /\ HandlersAtRest
    /\ CommandsLoaded

\* a handler runs; showInputBox opens the prompt
executeEditingCommand(command) ==
    /\ lastCommand' = command
    /\ commandCalls' = editingCommand(command, activeTextEditor)
    /\ IF commandCalls' = <<(<<"showInputBox">>)>>
       THEN inputBox' = "open" /\ promptValue' = Undefined
       ELSE UNCHANGED <<inputBox, promptValue>>
    /\ UNCHANGED <<activeTextEditor, lastHandled, lineCommentEnabled, unitTestTerminal,
                   terminals>>
    /\ UNCHANGED <<pathVars, usageVars, fixerVars, sessionVars>>

ExecuteEditingCommand == \E command \in EditingCommands : executeEditingCommand(command)

ExecuteCommentLine ==
    /\ lastCommand' = "cobolplugin.commentline"
    /\ commandCalls' = commentLine(activeTextEditor, lineCommentEnabled)
    /\ UNCHANGED <<activeTextEditor, lastHandled, commandVars>>
    /\ UNCHANGED <<pathVars, usageVars, fixerVars, sessionVars>>

CommandNext == ExecuteEditingCommand \/ ExecuteCommentLine

CommandSpecInit ==
    CommandInit /\ SessionAtRest /\ PathAtRest /\ UsageAtRest /\ FixerInit

CommandSpec == CommandSpecInit /\ [][CommandNext]_vars

(***************************************************************************)
(* The unit-test terminal specification: after activate,                   *)
(* cobolplugin.mfurunMenu is invoked any number of times, from the menu of *)
(* a file or without an argument.                                          *)
(***************************************************************************)
MaxInvocations == 3

FileUriChoices == {Undefined, Some("test.mfu")}

PrefRunnerChoices == {"mfurun", "null"}

invocations == IF terminals = <<>> THEN 0 ELSE terminals[1].shown

ExecuteMfurunMenu ==
    /\ invocations < MaxInvocations
    /\ \E fileUri \in FileUriChoices, enableAnsiColor \in BOOLEAN,
          prefRunner \in PrefRunnerChoices :
             mfurunMenu(fileUri, enableAnsiColor, prefRunner)
    /\ UNCHANGED <<activeTextEditor, lastHandled, lineCommentEnabled, inputBox, promptValue>>
    /\ UNCHANGED <<pathVars, usageVars, fixerVars, sessionVars>>

TerminalNext == ExecuteMfurunMenu

TerminalSpecInit == PathAtRest /\ UsageAtRest /\ FixerInit /\ OthersAtRest

TerminalSpec == TerminalSpecInit /\ [][TerminalNext]_vars

(***************************************************************************)
(* The prompt specification: after activate, with no editor or with an     *)
(* editor on a document of any language, cobolplugin.resequenceColumnNumbers*)
(* is invoked; the prompt it opens is cancelled or accepted with a text    *)
(* validateInput lets through.                                             *)
(***************************************************************************)
MaxInput == 5

InputCharacters == {"0", "1", "-", " ", "x"}

PromptTexts == {text \in SeqsUpTo(InputCharacters, MaxInput) : validateInput(text) = Undefined}

ExecuteResequence ==
    /\ inputBox = "none"
    /\ executeEditingCommand("cobolplugin.resequenceColumnNumbers")

\* the prompt is cancelled
PromptCancelled ==
    /\ inputBox = "open"
    /\ inputBox' = "none"
    /\ promptValue' = Undefined
    /\ lastCommand' = "showInputBox.then"
    /\ commandCalls' = promptResolved(Undefined)
    /\ UNCHANGED <<activeTextEditor, lastHandled, lineCommentEnabled, unitTestTerminal,
                   terminals>>
    /\ UNCHANGED <<pathVars, usageVars, fixerVars, sessionVars>>

\* the prompt is accepted
PromptAccepted ==
    /\ inputBox = "open"
    /\ \E text \in PromptTexts :
          /\ promptValue' = Some(text)
          /\ commandCalls' = promptResolved(Some(text))
    /\ inputBox' = "none"
    /\ lastCommand' = "showInputBox.then"
    /\ UNCHANGED <<activeTextEditor, lastHandled, lineCommentEnabled, unitTestTerminal,
                   terminals>>
    /\ UNCHANGED <<pathVars, usageVars, fixerVars, sessionVars>>

PromptNext == ExecuteResequence \/ PromptCancelled \/ PromptAccepted

PromptSpecInit == CommandInit /\ SessionAtRest /\ PathAtRest /\ UsageAtRest /\ FixerInit

PromptSpec == PromptSpecInit /\ [][PromptNext]_vars

(***************************************************************************)
(* The session specification: activate is called once, then the settings   *)
(* change, documents change, the active editor changes, the start-up sweep *)
(* finishes, and deactivate is called.                                     *)
(***************************************************************************)
CacheSettingsChoices == [cache_metadata : BOOLEAN, process_metadata_cache_on_start : BOOLEAN]

SessionEditorChoices ==
    {Undefined} \cup {Some([fileName |-> f, languageId |-> "COBOL"]) :
                         f \in {MainFileName, OtherFileName}}

SessionInit ==
    /\ cacheSettings \in CacheSettingsChoices
    /\ activeTextEditor \in SessionEditorChoices
    /\ lineCommentEnabled = FALSE
    /\ HandlersAtRest
    /\ CommandsLoaded
    /\ SessionLoaded

\* activate (lines 324-929): the search path (lines 345-346), the handlers, the
\* linter for the active editor, the caches, the sweep
Activate ==
    /\ phase = "loaded"
    /\ phase' = "active"
    /\ activatedWith' = Some(cacheSettings)
    /\ lifecycle' = activateCacheSteps(cacheSettings)
    /\ sweep' = IF startSweep(cacheSettings) # <<>> THEN "running" ELSE "none"
    /\ lastHandled' = Some(lintActiveEditor(activeTextEditor))
    /\ \E timing \in [TimedDirs(config) -> Durations] :
          initExtensionSearchPaths(config, extensionsAll, fs, ws, timing)
    /\ lastEvent' = "activate"
    /\ UNCHANGED <<config, ws, fs, extensionsAll, suppressed>>
    /\ UNCHANGED <<cacheSettings, activeTextEditor, lastCommand, commandCalls, commandVars>>
    /\ UNCHANGED <<usageVars, fixerVars>>

\* the asynchronous sweep comes to its end
SweepFinishes ==
    /\ sweep = "running"
    /\ sweep' = "finished"
    /\ lifecycle' = Append(lifecycle, "sweep finished")
    /\ UNCHANGED <<phase, cacheSettings, activatedWith>>
    /\ UNCHANGED <<pathVars, usageVars, fixerVars, editorVars>>

\* the user changes the caching settings: workspace.onDidChangeConfiguration
\* (lines 335-338) runs
OnDidChangeCacheSettings ==
    /\ phase = "active"
    /\ \E settings \in CacheSettingsChoices \ {cacheSettings} : cacheSettings' = settings
    /\ \E timing \in [TimedDirs(config) -> Durations] :
          initExtensionSearchPaths(config, extensionsAll, fs, ws, timing)
    /\ lastEvent' = "onDidChangeConfiguration"
    /\ suppressed' = stoppedByMessageBoxDone(config, extensionsAll)
    /\ UNCHANGED <<config, ws, fs, extensionsAll>>
    /\ UNCHANGED <<phase, activatedWith, lifecycle, sweep>>
    /\ UNCHANGED <<usageVars, fixerVars, editorVars>>

OnDidChangeTextDocument ==
    /\ phase = "active"
    /\ \E changed \in {MainFileName, OtherFileName} :
          lastHandled' = Some(onDidChangeTextDocument(changed, activeTextEditor))
    /\ UNCHANGED <<activeTextEditor, lastCommand, commandCalls, commandVars>>
    /\ UNCHANGED <<pathVars, usageVars, fixerVars, sessionVars>>

OnDidChangeActiveTextEditor ==
    /\ phase = "active"
    /\ \E editor \in SessionEditorChoices \ {activeTextEditor} :
          /\ activeTextEditor' = editor
          /\ lastHandled' = Some(onDidChangeActiveTextEditor(editor))
    /\ UNCHANGED <<lastCommand, commandCalls, commandVars>>
    /\ UNCHANGED <<pathVars, usageVars, fixerVars, sessionVars>>

Deactivate ==
    /\ phase = "active"
    /\ phase' = "deactivated"
    /\ lifecycle' = lifecycle \o deactivate(cacheSettings)
    /\ UNCHANGED <<cacheSettings, activatedWith, sweep>>
    /\ UNCHANGED <<pathVars, usageVars, fixerVars, editorVars>>

SessionNext ==
    \/ Activate
    \/ SweepFinishes
    \/ OnDidChangeCacheSettings
    \/ OnDidChangeTextDocument
    \/ OnDidChangeActiveTextEditor
    \/ Deactivate

SessionSpecInit == SessionInit /\ PathAtRest /\ UsageAtRest /\ FixerInit

SessionSpec == SessionSpecInit /\ [][SessionNext]_vars

(***************************************************************************)
(* The quick-fix specification: provideCodeActions is called with any      *)
(* context of at most MaxContextDiagnostics diagnostics: diagnostics of    *)
(* updateDiagnostics, a diagnostic of another provider with its own code,  *)
(* one whose code is a proper prefix of "noref", and one without a code.   *)
(***************************************************************************)
SampleToken(name) ==
    [tokenName |-> name, filename |-> MainFileName, inProcedureDivision |-> TRUE,
     startLine |-> 1, startColumn |-> 7]

DiagnosticChoices ==
    {newDiagnostic(<<"A">>, SampleToken(<<"A">>), " paragraph is not referenced"),
     newDiagnostic(<<"b">>, SampleToken(<<"b">>), " section is not referenced"),
     [newDiagnostic(<<"A">>, SampleToken(<<"A">>), " is a reserved word")
         EXCEPT !.code = Some(<<"l", "i", "n", "t">>)],
     [newDiagnostic(<<"A">>, SampleToken(<<"A">>), " is a reserved word")
         EXCEPT !.code = Some(<<"n", "o">>)],
     [newDiagnostic(<<"b">>, SampleToken(<<"b">>), " has a syntax error")
         EXCEPT !.code = Undefined]}

ProvideCodeActions ==
    /\ \E diagnostics \in SeqsUpTo(DiagnosticChoices, MaxContextDiagnostics) :
          /\ context' = diagnostics
          /\ codeActions' = Some(provideCodeActions(UriFile(MainFileName), diagnostics))
    /\ UNCHANGED <<pathVars, usageVars, editorVars, sessionVars>>

FixerNext == ProvideCodeActions

FixerSpecInit == FixerInit /\ PathAtRest /\ UsageAtRest /\ OthersAtRest

FixerSpec == FixerSpecInit /\ [][FixerNext]_vars

(***************************************************************************)
(* Properties of the search path.  They speak of the state after           *)
(* initExtensionSearchPaths has returned (initRuns = 1).                   *)
(***************************************************************************)
\* lines 49-51
getCombinedCopyBookSearchPath == fileSearchDirectory

copybookdirs == config.copybookdirs

folders == IF IsDefined(ws) THEN ValueOf(ws) ELSE <<>>

active == Range(getCombinedCopyBookSearchPath)

invalid == Range(invalidSearchDirectory)

DirectDirs == {i \in 1..Len(copybookdirs) : isDirectPath(copybookdirs[i])}

RelativeDirs == {i \in 1..Len(copybookdirs) : ~isDirectPath(copybookdirs[i])}

UncExcluded(i) ==
    config.disable_unc_copybooks_directories /\ isNetworkPath(copybookdirs[i])

\* C1: a direct copybook directory whose existence check took longer than the
\* 2000 ms threshold is not in the active search path and is in the invalid list.
C1_SlowDirectDirExcluded ==
    initRuns = 1 =>
        \A i \in DOMAIN elapsed :
            elapsed[i] > SlowThresholdMS =>
                /\ copybookdirs[i] \notin active
                /\ copybookdirs[i] \in invalid

\* C2: the active search path and the invalid-directory list are disjoint.
C2_ListsDisjoint ==
    initRuns = 1 => active \cap invalid = {}

\* a path of the active list that comes from a configured copybook directory: a
\* direct directory itself, or a relative one joined to a workspace folder
FromCopybookDir(p) ==
    \/ \E i \in DirectDirs : p = copybookdirs[i]
    \/ \E i \in RelativeDirs, k \in 1..Len(folders) : p = PathJoin(folders[k], copybookdirs[i])

\* C3 (as stated): with disable_unc_copybooks_directories set, every configured
\* network directory is in the invalid list and the active search path holds no
\* network path that comes from a configured copybook directory, direct or
\* resolved under a workspace folder.
C3_NoNetworkPathFromCopybookDirs ==
    (initRuns = 1 /\ config.disable_unc_copybooks_directories) =>
        /\ \A i \in 1..Len(copybookdirs) :
              isNetworkPath(copybookdirs[i]) => copybookdirs[i] \in invalid
        /\ \A p \in active :
              (isNetworkPath(p) /\ p \notin Range(folders)) => ~FromCopybookDir(p)

\* C3 (amended): with disable_unc_copybooks_directories set, every configured
\* network directory is in the invalid list, and a network path of the active
\* search path is a workspace folder or a relative copybook directory resolved
\* under a network workspace folder: no direct directory puts one there.
C3_NetworkPathsOnlyUnderWorkspace ==
    (initRuns = 1 /\ config.disable_unc_copybooks_directories) =>
        /\ \A i \in 1..Len(copybookdirs) :
              isNetworkPath(copybookdirs[i]) => copybookdirs[i] \in invalid
        /\ \A p \in active :
              isNetworkPath(p) =>
                  \/ p \in Range(folders)
                  \/ \E i \in RelativeDirs, k \in 1..Len(folders) :
                        /\ isNetworkPath(folders[k])
                        /\ p = PathJoin(folders[k], copybookdirs[i])

C3_Witness ==
    /\ initRuns = 1
    /\ config.disable_unc_copybooks_directories
    /\ \E i \in 1..Len(copybookdirs) :
          /\ isNetworkPath(copybookdirs[i])
          /\ fs[copybookdirs[i]] = "dir"
          /\ copybookdirs[i] \in invalid
    /\ \E p \in active : isNetworkPath(p) /\ p \notin Range(folders)

\* C4: a failing stat is not fatal: isDirectory and isFile answer false, the
\* direct directory is recorded as invalid and is not in the active search path,
\* and the remaining directories and workspace folders are still processed.
C4_FailingStatNotFatal ==
    initRuns = 1 =>
        \A i \in DirectDirs :
            (fs[copybookdirs[i]] = "ENOENT") =>
                /\ isDirectory(fs, copybookdirs[i]) = FALSE
                /\ isFile(fs, copybookdirs[i]) = FALSE
                /\ copybookdirs[i] \in invalid
                /\ copybookdirs[i] \notin active
                /\ \A j \in DirectDirs : copybookdirs[j] \in active \cup invalid
                /\ \A k \in 1..Len(folders) :
                      /\ folders[k] \in active
                      /\ \A j \in RelativeDirs :
                            PathJoin(folders[k], copybookdirs[j]) \in active \cup invalid

\* Where a path of the active list comes from: <<0, i>> is the accepted direct
\* directory copybookdirs[i], <<k, 0>> the workspace folder folders[k], <<k, i>>
\* the existing sub-directory copybookdirs[i] of folders[k].
Accepted(i) ==
    /\ i \in DirectDirs
    /\ ~UncExcluded(i)
    /\ fs[copybookdirs[i]] = "dir"
    /\ elapsed[i] <= SlowThresholdMS

Origins(p) ==
    {<<0, i>> : i \in {j \in DirectDirs : Accepted(j) /\ copybookdirs[j] = p}}
    \cup {<<k, 0>> : k \in {n \in 1..Len(folders) : folders[n] = p}}
    \cup {o \in (1..Len(folders)) \X RelativeDirs :
             /\ PathJoin(folders[o[1]], copybookdirs[o[2]]) = p
             /\ fs[p] = "dir"}

Before(a, b) == a[1] < b[1] \/ (a[1] = b[1] /\ a[2] < b[2])

FirstOrigin(p) == CHOOSE o \in Origins(p) : \A o2 \in Origins(p) : o = o2 \/ Before(o, o2)

CandidatePaths == active \cup Range(copybookdirs) \cup Range(folders) \cup DOMAIN fs

\* C5: the active search path lists, without duplicates, the accepted direct
\* directories in configuration order, then per workspace folder (in workspace
\* order) the folder followed by its existing relative sub-directories in
\* configuration order; a duplicate stays at its first place.
C5_DeterministicOrder ==
    initRuns = 1 =>
        /\ \A p \in CandidatePaths : p \in active <=> Origins(p) # {}
        /\ \A i, j \in 1..Len(getCombinedCopyBookSearchPath) :
              i < j =>
                  /\ getCombinedCopyBookSearchPath[i] # getCombinedCopyBookSearchPath[j]
                  /\ Before(FirstOrigin(getCombinedCopyBookSearchPath[i]),
                            FirstOrigin(getCombinedCopyBookSearchPath[j]))

C5_Witness ==
    /\ initRuns = 1
    /\ Len(getCombinedCopyBookSearchPath) >= 3
    /\ \E i \in DirectDirs : Accepted(i)
    /\ \E p \in active : Cardinality(Origins(p)) >= 2
    /\ \E p \in active : \E o \in Origins(p) : o[1] >= 1 /\ o[2] >= 1

\* C6: every configured copybook directory is accounted for: a network path
\* excluded by the UNC setting is invalid, any other direct directory is active
\* or invalid, a relative directory joined to each workspace folder is active or
\* invalid; every workspace folder is active.
C6_EveryDirAccounted ==
    initRuns = 1 =>
        /\ \A i \in 1..Len(copybookdirs) :
              /\ UncExcluded(i) => copybookdirs[i] \in invalid
              /\ (~UncExcluded(i) /\ isDirectPath(copybookdirs[i])) =>
                    copybookdirs[i] \in active \cup invalid
              /\ ~isDirectPath(copybookdirs[i]) =>
                    \A k \in 1..Len(folders) :
                        PathJoin(folders[k], copybookdirs[i]) \in active \cup invalid
        /\ \A k \in 1..Len(folders) : folders[k] \in active

C6_Witness ==
    /\ initRuns = 1
    /\ Len(folders) = 2
    /\ \E i \in 1..Len(copybookdirs) : UncExcluded(i)
    /\ \E i \in RelativeDirs :
          /\ PathJoin(folders[1], copybookdirs[i]) \in invalid
          /\ PathJoin(folders[2], copybookdirs[i]) \in active

(***************************************************************************)
(* Properties of the diagnostics.  They speak of the state after an        *)
(* updateDiagnostics call of an enabled provider: the provider holds the   *)
(* scan (current, sourceRefs) the published diagnostics were computed from.*)
(***************************************************************************)
Published == UNION {{<<u, i>> : i \in 1..Len(collection[u])} : u \in DOMAIN collection}

diagnosticAt(pos) == collection[pos[1]][pos[2]]

targetReferences == ValueOf(sourceRefs).targetReferences

Paragraphs == Range(ValueOf(current).paragraphs)

Sections == Range(ValueOf(current).sections)

\* the published diagnostic pos flags the declaration entry, of the given kind
Flags(pos, entry, what) ==
    /\ diagnosticAt(pos).message = entry.key \o <<what>>
    /\ diagnosticAt(pos).range.startLine = entry.token.startLine

IsFlagged(entry, what) == \E pos \in Published : Flags(pos, entry, what)

\* C7: a paragraph or section whose name, in whatever letter case it is declared,
\* is a referenced target of the reference set is never flagged as unreferenced.
C7_ReferencedNeverFlagged ==
    (IsDefined(current) /\ IsDefined(sourceRefs)) =>
        /\ \A e \in Paragraphs :
              toLowerCase(e.key) \in targetReferences
                  => ~IsFlagged(e, " paragraph is not referenced")
        /\ \A e \in Sections :
              toLowerCase(e.key) \in targetReferences
                  => ~IsFlagged(e, " section is not referenced")

C7_Witness ==
    /\ IsDefined(current)
    /\ IsDefined(sourceRefs)
    /\ \E e \in Paragraphs :
          /\ e.key = <<"A">>
          /\ <<"a">> \in targetReferences
          /\ ~IsFlagged(e, " paragraph is not referenced")
    /\ \E e \in Paragraphs : IsFlagged(e, " paragraph is not referenced")

\* C8: no "not referenced" diagnostic is published for a paragraph or a section
\* whose token has inProcedureDivision false.
C8_OnlyProcedureDivisionFlagged ==
    IsDefined(current) =>
        /\ \A e \in Paragraphs :
              e.token.inProcedureDivision = FALSE
                  => ~IsFlagged(e, " paragraph is not referenced")
        /\ \A e \in Sections :
              e.token.inProcedureDivision = FALSE
                  => ~IsFlagged(e, " section is not referenced")

\* the declarations updateDiagnostics is to report: every paragraph, and every
\* procedure-division section, whose lower-cased name is not a referenced target
Reportable ==
    {[entry |-> e, what |-> " paragraph is not referenced"] :
        e \in {p \in Paragraphs : toLowerCase(p.key) \notin targetReferences}}
    \cup
    {[entry |-> e, what |-> " section is not referenced"] :
        e \in {x \in Sections : /\ x.token.inProcedureDivision
                                /\ toLowerCase(x.key) \notin targetReferences}}

\* the diagnostic at pos reports the declaration r as the claim says: under the
\* file of the declaring token and with the code noref(<name>)
Reports(pos, r) ==
    /\ Flags(pos, r.entry, r.what)
    /\ pos[1] = UriFile(r.entry.token.filename)
    /\ diagnosticAt(pos).code = Some(<<"n", "o", "r", "e", "f", "(">> \o r.entry.key \o <<")">>)

\* C9: the published diagnostics are exactly one per reportable declaration, each
\* with the code noref(<declared name>) and filed under the file name of its
\* declaring token; no declaration has two and nothing else is published.
C9_ExactlyTheUnreferenced ==
    (enabled /\ IsDefined(current) /\ IsDefined(sourceRefs)) =>
        /\ \A r \in Reportable : Cardinality({pos \in Published : Reports(pos, r)}) = 1
        /\ \A pos \in Published : \E r \in Reportable : Reports(pos, r)
        /\ Cardinality(Published) = Cardinality(Reportable)

C9_Witness ==
    /\ enabled
    /\ IsDefined(current)
    /\ ValueOf(current).filename = MainFileName
    /\ UriFile(CopybookFileName) \in DOMAIN collection
    /\ UriFile(MainFileName) \in DOMAIN collection
    /\ \E e \in Paragraphs : toLowerCase(e.key) \in targetReferences

(***************************************************************************)
(* Properties of the quick fixes                                           *)
(***************************************************************************)
IsNoref(diagnostic) ==
    IsDefined(diagnostic.code) /\ startsWith(ValueOf(diagnostic.code), NOREF)

\* C10: provideCodeActions returns exactly one comment-out quick fix per
\* diagnostic of the context whose code starts with "noref", in the order of the
\* diagnostics, and none for any other diagnostic, one without a code included.
C10_OneFixPerNorefDiagnostic ==
    IsDefined(codeActions) =>
        LET wanted == SelectSeq(context, IsNoref)
            got    == ValueOf(codeActions)
        IN /\ Len(got) = Len(wanted)
           /\ \A i \in 1..Len(got) :
                 /\ got[i].diagnostics = <<wanted[i]>>
                 /\ got[i].kind = "QuickFix"
                 /\ got[i].command.command = "editor.action.addCommentLine"

(***************************************************************************)
(* Properties of the search path over re-initialisations.                  *)
(***************************************************************************)
NoDuplicates(arr) == \A i, j \in 1..Len(arr) : arr[i] = arr[j] => i = j

\* what the latest settings and workspace folders can put in a list
LatestPaths ==
    Range(copybookdirs) \cup Range(folders)
    \cup {PathJoin(folders[k], copybookdirs[i]) :
             k \in 1..Len(folders), i \in 1..Len(copybookdirs)}

ConflictInstalled ==
    \E ext \in extensionsAll :
        /\ ext.publisher # "bitlang"
        /\ \E key \in 1..Len(ext.grammars) : toUpperCase(ext.grammars[key]) = "COBOL"

\* C22: the modal dialog is shown at most once over any number of initialisations and
\* re-initialisations, and only by a run that found a COBOL grammar of an extension of
\* another publisher than bitlang with ignore_unsafe_extensions false
C22_DialogAtMostOnce ==
    [][messageBoxes' # messageBoxes =>
          /\ messageBoxes = 0
          /\ messageBoxes' = 1
          /\ ConflictInstalled'
          /\ config'.ignore_unsafe_extensions = FALSE]_vars

\* the dialog has been shown, and a later run that found the conflict again with
\* ignore_unsafe_extensions false did not show it a second time
C22_Witness ==
    /\ messageBoxes = 1
    /\ lastEvent \in {"onDidChangeConfiguration", "onExtChange", "onDidChangeWorkspaceFolders"}
    /\ suppressed
    /\ ConflictInstalled
    /\ config.ignore_unsafe_extensions = FALSE

(***************************************************************************)
(* Properties of the provider's cached scan.  They speak of the calls that *)
(* are remembered in `calls' and of the fields between two calls.          *)
(***************************************************************************)
lastCall == calls[Len(calls)]

\* what a call computes from the scan it reads: for every file of diagRefs its
\* diagnostics in order
computedFrom(qp, refs, uri) ==
    IF uri[2] \in DOMAIN buildDiagRefs(qp, refs) THEN buildDiagRefs(qp, refs)[uri[2]] ELSE <<>>

computedUris(qp, refs) == {UriFile(f) : f \in DOMAIN buildDiagRefs(qp, refs)}

\* C11: after a call on an enabled provider has returned, the collection holds
\* exactly the diagnostics that call computed from its scan: an entry for each file
\* with a diagnostic, and nothing that an earlier call published, for any file
C11_RecomputedInFull ==
    (enabled /\ Len(calls) > 0 /\ lastCall.completed) =>
        /\ IsDefined(current) /\ IsDefined(sourceRefs)
        /\ DOMAIN collection = computedUris(ValueOf(current), ValueOf(sourceRefs))
        /\ \A u \in DOMAIN collection :
              collection[u] = computedFrom(ValueOf(current), ValueOf(sourceRefs), u)
        /\ \A i \in 1..(Len(calls) - 1) : \A u \in DOMAIN calls[i].published :
              u \notin computedUris(ValueOf(current), ValueOf(sourceRefs))
                  => u \notin DOMAIN collection

\* an earlier call published a diagnostic for one file, the latest call was made with
\* another file and published for that one only
C11_Witness ==
    /\ enabled /\ Len(calls) > 1 /\ lastCall.completed
    /\ calls[Len(calls) - 1].completed
    /\ calls[Len(calls) - 1].fileName # lastCall.fileName
    /\ UriFile(calls[Len(calls) - 1].fileName) \in DOMAIN calls[Len(calls) - 1].published
    /\ UriFile(calls[Len(calls) - 1].fileName) \notin DOMAIN collection
    /\ UriFile(lastCall.fileName) \in DOMAIN collection

\* the three fields come from one completed scan of some text
FromOneCompletedScan ==
    /\ IsDefined(current) /\ IsDefined(currentVersion) /\ IsDefined(sourceRefs)
    /\ IsDefined(builtFor)
    /\ currentVersion = Some(ValueOf(builtFor).version)
    /\ \E text \in ProviderTextChoices :
          /\ current = Some(COBOLQuickParse(text, ValueOf(builtFor).fileName))
          /\ sourceRefs = Some(SharedSourceReferences(text))

NothingCached ==
    ~IsDefined(current) /\ ~IsDefined(currentVersion) /\ ~IsDefined(sourceRefs)

\* C12: between calls the cached scan, the recorded version and the reference set
\* belong to the same completed scan (or nothing is cached yet), also after a scan
\* that failed part-way
C12_CachedScanAtomic == NothingCached \/ FromOneCompletedScan

\* C13: of two consecutive calls that returned, on an enabled provider and for the
\* same file name and version, the second makes no scan and leaves the collection
\* as the first left it
C13_UnchangedDocumentIdempotent ==
    \A i \in 1..(Len(calls) - 1) :
        (/\ enabled
         /\ calls[i].completed /\ calls[i + 1].completed
         /\ calls[i].fileName = calls[i + 1].fileName
         /\ calls[i].version = calls[i + 1].version)
        => (/\ calls[i + 1].scanned = FALSE
            /\ calls[i + 1].published = calls[i].published)

\* two consecutive calls for the same document, the first of which scanned it and
\* published a diagnostic
C13_Witness ==
    \E i \in 1..(Len(calls) - 1) :
        /\ enabled
        /\ calls[i].completed /\ calls[i + 1].completed
        /\ calls[i].fileName = calls[i + 1].fileName
        /\ calls[i].version = calls[i + 1].version
        /\ calls[i].scanned
        /\ calls[i].published # EmptyMap
        /\ collection = calls[i].published

\* C16: the scan a call reads was constructed for the file name and the version of
\* the call's document, and after the call the cached file name and version are the
\* document's
C16_ScanIsOfTheDocument ==
    enabled =>
        /\ \A i \in 1..Len(calls) :
              calls[i].completed =>
                  calls[i].read = Some([fileName |-> calls[i].fileName,
                                        version |-> calls[i].version])
        /\ (Len(calls) > 0 /\ lastCall.completed) =>
              /\ IsDefined(current)
              /\ ValueOf(current).filename = lastCall.fileName
              /\ currentVersion = Some(lastCall.version)

\* A, then B, then A again at the version it had: when B was passed the cache held
\* the scan of A, and the call with A that follows scans A anew
C16_Witness ==
    /\ enabled /\ Len(calls) = 2
    /\ calls[1].completed /\ calls[2].completed
    /\ calls[2].fileName # calls[1].fileName
    /\ calls[2].version = calls[1].version
    /\ calls[1].cachedBefore = Some([fileName |-> calls[2].fileName,
                                     version |-> calls[2].version])
    /\ calls[2].cachedBefore = Some([fileName |-> calls[1].fileName,
                                     version |-> calls[1].version])
    /\ calls[2].scanned
    /\ calls[2].read = Some([fileName |-> calls[2].fileName, version |-> calls[2].version])

\* C23: a call of updateDiagnostics on a disabled provider makes no scan and leaves
\* the diagnostic collection, the cached scan, the cached version and the reference
\* set as they were
C23_DisabledLeavesAll ==
    [][~enabled =>
          /\ UNCHANGED <<collection, current, currentVersion, sourceRefs>>
          /\ Len(calls') > 0 => ~calls'[Len(calls')].scanned]_vars

\* a disabled provider whose collection holds diagnostics was called with a document
\* before and after an edit of it
C23_Witness ==
    /\ ~enabled
    /\ collection = EarlierCollection
    /\ collection # EmptyMap
    /\ Len(calls) = 2
    /\ calls[1].fileName = calls[2].fileName
    /\ calls[1].version < calls[2].version
    /\ calls[2].published = EarlierCollection
    /\ ~calls[2].scanned

(***************************************************************************)
(* Properties of the commands.                                             *)
(***************************************************************************)
\* the dialects the extension registers its providers for (lines 551-557), without
\* the alias entcobol
SupportedDialects == {"COBOL", "ACUCOBOL", "OpenCOBOL", "GnuCOBOL"}

\* C18: a source-editing command acts on the active document when its language is
\* COBOL, ACUCOBOL, OpenCOBOL or GnuCOBOL and does nothing for any other language
C18_ActsOnEverySupportedDialect ==
    (lastCommand \in EditingCommands /\ IsDefined(activeTextEditor)) =>
        IF ValueOf(activeTextEditor).languageId \in SupportedDialects
        THEN Len(commandCalls) = 1
        ELSE commandCalls = <<>>

FoldingCommands ==
    {"cobolplugin.makeKeywordsLowercase", "cobolplugin.makeKeywordsUppercase",
     "cobolplugin.makeKeywordsCamelCase",
     "cobolplugin.makeFieldsLowercase", "cobolplugin.makeFieldsUppercase",
     "cobolplugin.makeFieldsCamelCase",
     "cobolplugin.makePerformTargetsLowerCase", "cobolplugin.makePerformTargetsUpperCase",
     "cobolplugin.makePerformTargetsCamelCase"}

\* the token class and the case style a command name denotes
DenotedClass(command) ==
    CASE command \in {"cobolplugin.makeKeywordsLowercase", "cobolplugin.makeKeywordsUppercase",
                      "cobolplugin.makeKeywordsCamelCase"} -> "Keywords"
      [] command \in {"cobolplugin.makeFieldsLowercase", "cobolplugin.makeFieldsUppercase",
                      "cobolplugin.makeFieldsCamelCase"} -> "ConstantsOrVariables"
      [] OTHER -> "PerformTargets"

DenotedStyle(command) ==
    CASE command \in {"cobolplugin.makeKeywordsLowercase", "cobolplugin.makeFieldsLowercase",
                      "cobolplugin.makePerformTargetsLowerCase"} -> "LowerCase"
      [] command \in {"cobolplugin.makeKeywordsUppercase", "cobolplugin.makeFieldsUppercase",
                      "cobolplugin.makePerformTargetsUpperCase"} -> "UpperCase"
      [] OTHER -> "CamelCase"

\* C20: on a COBOL, OpenCOBOL or ACUCOBOL document each case-folding command calls
\* foldToken once, with the token class and the case style of its name
C20_FoldsAsNamed ==
    (/\ lastCommand \in FoldingCommands
     /\ IsDefined(activeTextEditor)
     /\ ValueOf(activeTextEditor).languageId \in {"COBOL", "OpenCOBOL", "ACUCOBOL"})
    => commandCalls = <<(<<"foldToken", DenotedClass(lastCommand), DenotedStyle(lastCommand)>>)>>

\* C21: every invocation of cobolplugin.commentline performs exactly one comment
\* action: the COBOL commenter when the active editor's language is COBOL, OpenCOBOL
\* or ACUCOBOL and line commenting is enabled, the editor's default comment-line
\* command in every other case (other language, setting off, no active editor)
C21_ExactlyOneCommentAction ==
    lastCommand = "cobolplugin.commentline" =>
        commandCalls =
            IF /\ IsDefined(activeTextEditor)
               /\ ValueOf(activeTextEditor).languageId \in {"COBOL", "OpenCOBOL", "ACUCOBOL"}
               /\ lineCommentEnabled
            THEN <<(<<"commenter.processCommentLine">>)>>
            ELSE <<(<<"executeCommand", "editor.action.commentLine">>)>>

\* the part of C21 the handler does keep: with no editor, or with an editor on a
\* COBOL, OpenCOBOL or ACUCOBOL document, exactly the one action named is made
C21_OneActionUnlessOtherLanguage ==
    (/\ lastCommand = "cobolplugin.commentline"
     /\ IsDefined(activeTextEditor) =>
            ValueOf(activeTextEditor).languageId \in {"COBOL", "OpenCOBOL", "ACUCOBOL"})
    => C21_ExactlyOneCommentAction

\* C25: what the prompt of the resequence command resolved with decides what is done:
\* resequenceColumnNumbers is called, with the two numbers, exactly when the first two
\* space-separated fields parse to a start number >= 0 and an increment >= 1; for any
\* other value the error message is shown and nothing else is called; for a cancelled
\* prompt nothing is called
C25_ResequenceIffValid ==
    lastCommand = "showInputBox.then" =>
        IF promptValue = Undefined
        THEN commandCalls = <<>>
        ELSE LET fields == split(ValueOf(promptValue))
                 start == parseInt(elementAt(fields, 1))
                 increment == parseInt(elementAt(fields, 2))
             IN IF /\ start # NaN /\ increment # NaN
                   /\ ValueOf(start) >= 0 /\ ValueOf(increment) >= 1
                THEN commandCalls = <<(<<"resequenceColumnNumbers", ValueOf(start),
                                        ValueOf(increment)>>)>>
                ELSE commandCalls = <<(<<"showErrorMessage",
                                        "Sorry invalid re-sequence given">>)>>

\* the prompt resolved with three fields, the first two being numbers and the third
\* none, and resequenceColumnNumbers was called
C25_Witness ==
    /\ lastCommand = "showInputBox.then"
    /\ promptValue # Undefined
    /\ Len(split(ValueOf(promptValue))) = 3
    /\ parseInt(elementAt(split(ValueOf(promptValue)), 3)) = NaN
    /\ Len(commandCalls) = 1
    /\ commandCalls[1][1] = "resequenceColumnNumbers"

\* the lines sent so far to the terminals named UnitTest
sentLines(terms) ==
    IF terms = <<>> THEN 0 ELSE Len(terms[1].text)

\* C24: over any sequence of cobolplugin.mfurunMenu invocations at most one UnitTest
\* terminal is created, by the first invocation, later invocations use that terminal,
\* and every invocation sends exactly one runner command line to it
C24_OneTerminalOneLineEach ==
    [][terminals' # terminals =>
          /\ Len(terminals') = 1
          /\ terminals'[1].name = "UnitTest"
          /\ unitTestTerminal' = Some(1)
          /\ unitTestTerminal # Undefined => unitTestTerminal' = unitTestTerminal
          /\ sentLines(terminals') = sentLines(terminals) + 1]_vars

\* the part of C24 the handler does keep: one terminal, created by the first
\* invocation and used by every later one, and one line for every invocation that
\* was given a file
C24_OneTerminalOneLinePerFile ==
    [][terminals' # terminals =>
          /\ Len(terminals') = 1
          /\ terminals'[1].name = "UnitTest"
          /\ unitTestTerminal' = Some(1)
          /\ unitTestTerminal # Undefined => unitTestTerminal' = unitTestTerminal
          /\ sentLines(terminals') =
                sentLines(terminals) +
                   (IF commandCalls'[Len(commandCalls')] = <<"sendText">> THEN 1 ELSE 0)]_vars

(***************************************************************************)
(* Properties of the session.                                              *)
(***************************************************************************)
Position(step) == {i \in 1..Len(lifecycle) : lifecycle[i] = step}

Happened(step) == Position(step) # {}

CachesLoaded ==
    Happened("loadInMemoryGlobalSymbolCaches") /\ Happened("loadInMemoryGlobalFileCache")

CachesSaved == Happened("saveInMemoryGlobalCaches")

\* C14: the caches are loaded during activate if caching is enabled, and caches
\* that were loaded at start-up are always saved at shutdown
C14_LoadedCachesAlwaysSaved ==
    /\ (phase # "loaded" /\ isCachingEnabled(ValueOf(activatedWith))) => CachesLoaded
    /\ (phase = "deactivated" /\ CachesLoaded) => CachesSaved

\* C14 (as the code has it): the caches are loaded during activate exactly when
\* caching is enabled then, and saved during deactivate exactly when caching is
\* enabled then; loaded caches are saved if caching is still enabled at shutdown
C14_SavedIfEnabledAtShutdown ==
    /\ phase # "loaded" => (CachesLoaded <=> isCachingEnabled(ValueOf(activatedWith)))
    /\ phase = "deactivated" => (CachesSaved <=> isCachingEnabled(cacheSettings))
    /\ phase # "deactivated" => ~CachesSaved
    /\ (phase = "deactivated" /\ CachesLoaded /\ isCachingEnabled(cacheSettings))
           => CachesSaved

\* a session that loaded the caches, saw the settings change and saved the caches
C14_Witness ==
    /\ phase = "deactivated"
    /\ CachesLoaded
    /\ CachesSaved
    /\ cacheSettings # ValueOf(activatedWith)

\* C17: in activate the caches are loaded before the sweep is started, the sweep is
\* started only when process_metadata_cache_on_start is set, and activate returns
\* before the sweep has finished
C17_LoadBeforeSweepNoWait ==
    phase # "loaded" =>
        /\ \A i \in Position("loadInMemoryGlobalSymbolCaches")
                      \cup Position("loadInMemoryGlobalFileCache") :
              \A j \in Position("processAllFilesInWorkspaces") : i < j
        /\ Happened("processAllFilesInWorkspaces")
              => ValueOf(activatedWith).process_metadata_cache_on_start
        /\ Happened("activate returns")
        /\ \A i \in Position("activate returns") :
              \A j \in Position("sweep finished") : i < j
        /\ \A i \in Position("processAllFilesInWorkspaces") :
              \A j \in Position("activate returns") : i < j

\* activate has loaded the caches, started the sweep and returned; the sweep is
\* still running
C17_Witness ==
    /\ phase = "active"
    /\ CachesLoaded
    /\ Happened("processAllFilesInWorkspaces")
    /\ Happened("activate returns")
    /\ sweep = "running"

\* C15: every text-document change event recomputes the diagnostics of the document
\* that changed, inside the handler
C15_ChangedDocumentRecomputed ==
    (IsDefined(lastHandled) /\ ValueOf(lastHandled).event = "onDidChangeTextDocument")
        => ValueOf(lastHandled).linted = ValueOf(lastHandled).changed

====
